---- MODULE Spec2Model ----
(***************************************************************************)
(* routeguard: the traverse-closure evaluator evaluate_bowditch            *)
(* (src/routeguard/bowditch.py) as a state machine.                        *)
(*                                                                         *)
(* One evaluation is a pure function of (spec, given).  The state holds    *)
(* the two inputs, the program position and the BowditchResult returned.   *)
(*                                                                         *)
(* Numbers.  Python floats are modelled as exact rationals <<n, d>> in     *)
(* lowest terms with d > 0, so "approximately equal" of the floating-point *)
(* code is exact equality here.  The one irrational quantity, the norm     *)
(* sqrt(fN^2 + fE^2), is carried as a surd [sq |-> q] that stands for      *)
(* sqrt(q); a surd is compared with a rational by comparing squares.       *)
(* Python dicts are functions whose DOMAIN is the set of keys present.     *)
(*                                                                         *)
(* Inputs.  Init draws (spec, given) from three families (guard, geometry, *)
(* weight inputs) that each vary the fields one part of the pipeline       *)
(* reads; Spec runs the call on all of them, SpecLoops on the guard        *)
(* inputs, where the loops list varies.  Definitions marked "variant" are  *)
(* deliberately altered copies of the definition that follows them.        *)
(***************************************************************************)
EXTENDS Integers, Sequences, FiniteSets, TLC

VARIABLES spec, given, pc, result

vars == <<spec, given, pc, result>>

(***************************************************************************)
(* Rational arithmetic (the float operations of the source)                *)
(***************************************************************************)
Abs(x) == IF x < 0 THEN -x ELSE x

RECURSIVE GCD(_, _)
GCD(a, b) == IF b = 0 THEN a ELSE GCD(b, a % b)

Rat(n, d) ==
    LET s == IF d < 0 THEN -1 ELSE 1
        g == GCD(Abs(n), Abs(d))
    IN  <<(s * n) \div g, (s * d) \div g>>

FromInt(n) == <<n, 1>>
Zero == FromInt(0)
One == FromInt(1)

RAdd(a, b) == Rat(a[1] * b[2] + b[1] * a[2], a[2] * b[2])
RNeg(a) == <<-a[1], a[2]>>
RMul(a, b) == Rat(a[1] * b[1], a[2] * b[2])
RDiv(a, b) == Rat(a[1] * b[2], a[2] * b[1])
RAbs(a) == <<Abs(a[1]), a[2]>>
RLe(a, b) == a[1] * b[2] <= b[1] * a[2]
RLt(a, b) == a[1] * b[2] < b[1] * a[2]
RGt(a, b) == RLt(b, a)

\* sqrt(s.sq) <= r  and  sqrt(s.sq) > r, for a surd s and a rational r
SurdLe(s, r) == RLe(Zero, r) /\ RLe(s.sq, RMul(r, r))
SurdGt(s, r) == ~SurdLe(s, r)
SurdGe(s, r) == RLe(r, Zero) \/ RLe(RMul(r, r), s.sq)
\* the literal 0.0 where the source stores it in a "norm" field
NormZero == [sq |-> Zero]

(***************************************************************************)
(* Dict helpers                                                            *)
(***************************************************************************)
EmptyDict == <<>>

\* d.get(key, default)
_safe_get(d, key, default) == IF key \in DOMAIN d THEN d[key] ELSE default

\* {**a, **b}
Merge(a, b) ==
    [k \in DOMAIN a \cup DOMAIN b |-> IF k \in DOMAIN b THEN b[k] ELSE a[k]]

(***************************************************************************)
(* Bearings: the angles the model supplies, with their exact cosine and    *)
(* sine (math.cos, math.sin)                                               *)
(***************************************************************************)
Bearings == {"0", "pi/2", "pi", "3pi/2"}

cos(theta) ==
    CASE theta = "0" -> One
      [] theta = "pi/2" -> Zero
      [] theta = "pi" -> RNeg(One)
      [] theta = "3pi/2" -> Zero

sin(theta) ==
    CASE theta = "0" -> Zero
      [] theta = "pi/2" -> One
      [] theta = "pi" -> Zero
      [] theta = "3pi/2" -> RNeg(One)

_norm(fN, fE) == [sq |-> RAdd(RMul(fN, fN), RMul(fE, fE))]

_compute_increments(seg) ==
    LET L == seg.length
        theta == seg.bearing_rad
    IN  <<RMul(L, cos(theta)), RMul(L, sin(theta))>>

_segment_weight(seg) ==
    LET L == seg.length
        trust == _safe_get(seg, "trust_weight", One)
        risk0 == _safe_get(seg, "risk_weight", One)
        risk == IF RLe(risk0, Zero) THEN One ELSE risk0
    IN  RMul(RMul(L, trust), RDiv(One, risk))

\* (variant: only the norm is tightened)
TightenNormOnly(loop_tol, tighter_multiplier) ==
    [lat |-> loop_tol.lat, dep |-> loop_tol.dep,
     norm |-> RMul(loop_tol.norm, tighter_multiplier)]

_tighten_tolerance_if_frog(loop_tol, tighter_multiplier) ==
    [lat |-> RMul(loop_tol.lat, tighter_multiplier),
     dep |-> RMul(loop_tol.dep, tighter_multiplier),
     norm |-> RMul(loop_tol.norm, tighter_multiplier)]

(***************************************************************************)
(* evaluate_bowditch                                                       *)
(***************************************************************************)
\* the 0.0-filled dicts of the early exits
ZeroMisclosure == [f_N |-> Zero, f_E |-> Zero, norm |-> NormZero]
ZeroTolerance == [lat |-> Zero, dep |-> Zero, norm |-> Zero]

\* redundancy = int(_safe_get(given, "redundancy", 999999))
DefaultRedundancy == 999999

\* (variant: the test without the anchor_tol > 0 condition)
AnchorConflictAnyTolerance(anchors) ==
    LET anchor_tol == _safe_get(anchors, "anchor_agreement_tolerance", Zero)
    IN  /\ "observed_anchor_disagreement" \in DOMAIN anchors
        /\ RGt(anchors["observed_anchor_disagreement"], anchor_tol)

\* the anchor test: both fields present, tolerance positive, disagreement beyond it
AnchorConflict(anchors) ==
    LET anchor_tol == _safe_get(anchors, "anchor_agreement_tolerance", Zero)
    IN  /\ "observed_anchor_disagreement" \in DOMAIN anchors
        /\ RGt(anchor_tol, Zero)
        /\ RGt(anchors["observed_anchor_disagreement"], anchor_tol)

\* (variant: the literal label, anchor_rule not consulted)
AnchorDecisionHardCoded(anchor_rule) == "DENY_REQUIRE_ANCHOR"

\* anchor_rule.get("decision", "DENY_REQUIRE_ANCHOR")
AnchorDecision(anchor_rule) == _safe_get(anchor_rule, "decision", "DENY_REQUIRE_ANCHOR")

\* recovery_rule.get("decision", "DENY_REQUIRE_RECOVERY")
RecoveryDecision(recovery_rule) ==
    _safe_get(recovery_rule, "decision", "DENY_REQUIRE_RECOVERY")

\* the label of the frog-redundancy denial: the literal, whatever anchor_rule says
FrogDenyDecision(anchor_rule) == "DENY_REQUIRE_ANCHOR"

\* seg_by_id = {s["segment_id"]: s for s in segments_list}: a later entry wins
SegById(segments_list) ==
    LET ids == {segments_list[i].segment_id : i \in DOMAIN segments_list}
        last(sid) == CHOOSE i \in DOMAIN segments_list :
                        /\ segments_list[i].segment_id = sid
                        /\ \A j \in DOMAIN segments_list :
                              segments_list[j].segment_id = sid => j <= i
    IN  [sid \in ids |-> segments_list[last(sid)]]

\* (variant: the last loop, loops_list[-1])
SelectedLoopLast(loops_list) == loops_list[Len(loops_list)]

\* loop = loops_list[0]
SelectedLoop(loops_list) == loops_list[1]

\* [seg_by_id[sid] for sid in loop_segment_ids if sid in seg_by_id]
\* (variant: resolution stops at the first id that is not a known segment)
RECURSIVE LoopSegmentsUntilMissing(_, _)
LoopSegmentsUntilMissing(seg_by_id, loop_segment_ids) ==
    IF loop_segment_ids = <<>> THEN <<>>
    ELSE LET sid == Head(loop_segment_ids)
         IN  IF sid \in DOMAIN seg_by_id
             THEN <<seg_by_id[sid]>>
                  \o LoopSegmentsUntilMissing(seg_by_id, Tail(loop_segment_ids))
             ELSE <<>>

RECURSIVE LoopSegments(_, _)
LoopSegments(seg_by_id, loop_segment_ids) ==
    IF loop_segment_ids = <<>> THEN <<>>
    ELSE LET sid == Head(loop_segment_ids)
             rest == LoopSegments(seg_by_id, Tail(loop_segment_ids))
         IN  IF sid \in DOMAIN seg_by_id THEN <<seg_by_id[sid]>> \o rest ELSE rest

\* any(bool(_safe_get(s, "is_frog", False)) for s in loop_segments)
HasFrog(loop_segments) ==
    \E i \in DOMAIN loop_segments : _safe_get(loop_segments[i], "is_frog", FALSE)

\* the misclosure loop: fN, fE accumulated over loop_segments in order
RECURSIVE Misclosure(_)
Misclosure(loop_segments) ==
    IF loop_segments = <<>> THEN <<Zero, Zero>>
    ELSE LET n == Len(loop_segments)
             acc == Misclosure(SubSeq(loop_segments, 1, n - 1))
             d == _compute_increments(loop_segments[n])
         IN  <<RAdd(acc[1], d[1]), RAdd(acc[2], d[2])>>

\* (variant: the combined norm alone)
WithinToleranceNormOnly(fN, fE, f, tol_used) == SurdLe(f, tol_used.norm)

\* abs(fN) <= tol["lat"] and abs(fE) <= tol["dep"] and f <= tol["norm"]
WithinTolerance(fN, fE, f, tol_used) ==
    /\ RLe(RAbs(fN), tol_used.lat)
    /\ RLe(RAbs(fE), tol_used.dep)
    /\ SurdLe(f, tol_used.norm)

\* (variant: >= in place of >)
RecoveryGuardInclusive(f, tol_used, max_norm_multiplier) ==
    /\ RGt(tol_used.norm, Zero)
    /\ SurdGe(f, RMul(max_norm_multiplier, tol_used.norm))

\* (variant: the tolerance divided by the multiplier)
RecoveryGuardDivided(f, tol_used, max_norm_multiplier) ==
    /\ RGt(tol_used.norm, Zero)
    /\ SurdGt(f, RDiv(tol_used.norm, max_norm_multiplier))

\* tol["norm"] > 0 and f > max_norm_multiplier * tol["norm"]
RecoveryGuard(f, tol_used, max_norm_multiplier) ==
    /\ RGt(tol_used.norm, Zero)
    /\ SurdGt(f, RMul(max_norm_multiplier, tol_used.norm))

\* weights = {seg["segment_id"]: _segment_weight(seg) for seg in loop_segments}
Weights(loop_segments) ==
    LET by_id == SegById(loop_segments)
    IN  [sid \in DOMAIN by_id |-> _segment_weight(by_id[sid])]

\* sum(weights.values())
RECURSIVE SumValues(_)
SumValues(d) ==
    IF DOMAIN d = {} THEN Zero
    ELSE LET k == CHOOSE x \in DOMAIN d : TRUE
         IN  RAdd(d[k], SumValues([x \in DOMAIN d \ {k} |-> d[x]]))

\* W, with the fallback to the segment count (or 1.0)
TotalWeight(weights, loop_segments) ==
    LET W0 == IF DOMAIN weights # {} THEN SumValues(weights) ELSE Zero
    IN  IF RLe(W0, Zero)
        THEN (IF loop_segments # <<>> THEN FromInt(Len(loop_segments)) ELSE One)
        ELSE W0

\* cN = -fN * (wi / W)
Correction(fX, wi, W) == RMul(RNeg(fX), RDiv(wi, W))

\* (variant: >= in place of >)
CorrectionTooLargeInclusive(cN, cE, L, max_fraction_of_segment) ==
    /\ RGt(L, Zero)
    /\ \/ RLe(RMul(max_fraction_of_segment, L), RAbs(cN))
       \/ RLe(RMul(max_fraction_of_segment, L), RAbs(cE))

\* the per-segment safety test, skipped for a segment of length <= 0
CorrectionTooLarge(cN, cE, L, max_fraction_of_segment) ==
    /\ RGt(L, Zero)
    /\ \/ RGt(RAbs(cN), RMul(max_fraction_of_segment, L))
       \/ RGt(RAbs(cE), RMul(max_fraction_of_segment, L))

\* one entry of `corrected` and of `corrections_detail` per loop segment
CorrectedSegment(seg, fN, fE, weights, W) ==
    LET sid == seg.segment_id
        wi == _safe_get(weights, sid, One)
        cN == Correction(fN, wi, W)
        cE == Correction(fE, wi, W)
        d == _compute_increments(seg)
    IN  Merge(seg,
              [_unadjusted |-> [dN |-> d[1], dE |-> d[2]],
               _correction |-> [cN |-> cN, cE |-> cE],
               _adjusted |-> [dN |-> RAdd(d[1], cN), dE |-> RAdd(d[2], cE)]])

CorrectionDetail(seg, fN, fE, weights, W) ==
    LET sid == seg.segment_id
        wi == _safe_get(weights, sid, One)
    IN  [segment_id |-> sid, cN |-> Correction(fN, wi, W),
         cE |-> Correction(fE, wi, W), w |-> wi]

\* the recomputed misclosure: the sum of the adjusted increments
RECURSIVE PostMisclosure(_)
PostMisclosure(corrected) ==
    IF corrected = <<>> THEN <<Zero, Zero>>
    ELSE LET n == Len(corrected)
             acc == PostMisclosure(SubSeq(corrected, 1, n - 1))
         IN  <<RAdd(acc[1], corrected[n]._adjusted.dN),
               RAdd(acc[2], corrected[n]._adjusted.dE)>>

\* (variant: the audit of the recovery guard without its reason)
RecoveryGuardAuditNoReason(audit_base, recovery_decision, max_norm_multiplier) ==
    Merge(audit_base,
          [decision |-> recovery_decision,
           max_norm_multiplier_over_tolerance |-> max_norm_multiplier])

\* the audit dict of the recovery guard's exit
RecoveryGuardAudit(audit_base, recovery_decision, max_norm_multiplier) ==
    Merge(audit_base,
          [decision |-> recovery_decision,
           reason |-> "misclosure norm too large relative to tolerance",
           max_norm_multiplier_over_tolerance |-> max_norm_multiplier])

BowditchResult(decision, misclosure, tolerance_used, corrections_applied, corrected_segments, audit_report) ==
    [decision |-> decision, misclosure |-> misclosure,
     tolerance_used |-> tolerance_used,
     corrections_applied |-> corrections_applied,
     corrected_segments |-> corrected_segments,
     audit_report |-> audit_report]

\* corrected_segments=None
None == <<"None">>

evaluate_bowditch(spec_, given_) ==
    LET policy == _safe_get(spec_, "policy_semantics", EmptyDict)
        frog_rule == _safe_get(policy, "frog_node_rule", EmptyDict)
        anchor_rule == _safe_get(policy, "anchor_rule", EmptyDict)
        recovery_rule == _safe_get(policy, "recovery_rule", EmptyDict)
        correction_safety == _safe_get(policy, "correction_safety", EmptyDict)
        tighter_multiplier == _safe_get(frog_rule, "tighter_multiplier", One)
        required_redundancy == _safe_get(frog_rule, "required_redundancy", 0)
        max_fraction_of_segment ==
            _safe_get(correction_safety, "max_fraction_of_segment", Rat(2, 100))
        max_norm_multiplier ==
            _safe_get(correction_safety, "max_norm_multiplier_over_tolerance",
                      FromInt(2))
        segments_list == _safe_get(given_, "segments", <<>>)
        loops_list == _safe_get(given_, "loops", <<>>)
        anchors == _safe_get(given_, "anchors", EmptyDict)
        redundancy == _safe_get(given_, "redundancy", DefaultRedundancy)
        anchor_decision == AnchorDecision(anchor_rule)
        recovery_decision == RecoveryDecision(recovery_rule)
    IN
    IF AnchorConflict(anchors)
    THEN BowditchResult(anchor_decision, ZeroMisclosure, ZeroTolerance, FALSE, None,
            [reason |-> "anchor conflict beyond tolerance",
             observed_anchor_disagreement |-> anchors["observed_anchor_disagreement"],
             anchor_agreement_tolerance |->
                 _safe_get(anchors, "anchor_agreement_tolerance", Zero),
             decision |-> anchor_decision])
    ELSE IF loops_list = <<>>
    THEN BowditchResult("ALLOW", ZeroMisclosure, ZeroTolerance, FALSE, None,
            [note |-> <<"no loops provided", "closure check skipped">>,
             decision |-> "ALLOW"])
    ELSE
    LET seg_by_id == SegById(segments_list)
        loop == SelectedLoop(loops_list)
        loop_id == loop.loop_id
        loop_tol == _safe_get(loop, "closure_tolerance", ZeroTolerance)
        loop_segment_ids == _safe_get(loop, "segments", <<>>)
        loop_segments == LoopSegments(seg_by_id, loop_segment_ids)
        has_frog == HasFrog(loop_segments)
        tol_used == IF has_frog
                    THEN _tighten_tolerance_if_frog(loop_tol, tighter_multiplier)
                    ELSE [lat |-> loop_tol.lat, dep |-> loop_tol.dep,
                          norm |-> loop_tol.norm]
        frog_flags == IF has_frog THEN <<"frog_present">> ELSE <<>>
    IN
    IF has_frog /\ redundancy < required_redundancy
    THEN BowditchResult(FrogDenyDecision(anchor_rule), ZeroMisclosure, tol_used,
            FALSE, None,
            [loop_id |-> loop_id,
             frog_rule |-> "redundancy insufficient",
             required_redundancy |-> required_redundancy,
             provided_redundancy |-> redundancy,
             decision |-> FrogDenyDecision(anchor_rule)])
    ELSE
    LET fNE == Misclosure(loop_segments)
        fN == fNE[1]
        fE == fNE[2]
        f == _norm(fN, fE)
        misclosure == [f_N |-> fN, f_E |-> fE, norm |-> f]
        audit_base == [loop_id |-> loop_id, has_frog |-> has_frog,
                       frog_flags |-> frog_flags, misclosure |-> misclosure,
                       tolerance_used |-> tol_used]
    IN
    IF WithinTolerance(fN, fE, f, tol_used)
    THEN BowditchResult("ALLOW", misclosure, tol_used, FALSE, None,
            Merge(audit_base,
                  [decision |-> "ALLOW",
                   note |-> <<"within tolerance", "no correction needed">>]))
    ELSE IF RecoveryGuard(f, tol_used, max_norm_multiplier)
    THEN BowditchResult(recovery_decision, misclosure, tol_used, FALSE, None,
            RecoveryGuardAudit(audit_base, recovery_decision, max_norm_multiplier))
    ELSE
    LET weights == Weights(loop_segments)
        W == TotalWeight(weights, loop_segments)
        corrected == [i \in DOMAIN loop_segments |->
                         CorrectedSegment(loop_segments[i], fN, fE, weights, W)]
        corrections_detail == [i \in DOMAIN loop_segments |->
                         CorrectionDetail(loop_segments[i], fN, fE, weights, W)]
        corrections_too_large ==
            \E i \in DOMAIN loop_segments :
                CorrectionTooLarge(corrections_detail[i].cN, corrections_detail[i].cE,
                                   loop_segments[i].length, max_fraction_of_segment)
    IN
    IF corrections_too_large
    THEN BowditchResult(recovery_decision, misclosure, tol_used, FALSE, None,
            Merge(audit_base,
                  [decision |-> recovery_decision,
                   reason |-> "corrections exceed max_fraction_of_segment",
                   max_fraction_of_segment |-> max_fraction_of_segment,
                   corrections |-> corrections_detail]))
    ELSE
    LET fNE2 == PostMisclosure(corrected)
        f2 == _norm(fNE2[1], fNE2[2])
    IN  BowditchResult("ALLOW_WITH_CORRECTIONS", misclosure, tol_used, TRUE,
            corrected,
            Merge(audit_base,
                  [decision |-> "ALLOW_WITH_CORRECTIONS",
                   corrections |-> corrections_detail,
                   post_misclosure |->
                       [f_N |-> fNE2[1], f_E |-> fNE2[2], norm |-> f2],
                   note |-> <<"bowditch corrections applied">>]))

(***************************************************************************)
(* Inputs: the (spec, given) pairs an evaluation is run on                 *)
(***************************************************************************)
MaxLen == 2          \* segment lengths 1..MaxLen
MaxTol == 1          \* closure tolerances 0..MaxTol
MaxRedundancy == 1   \* redundancy 0..MaxRedundancy, required 1..MaxRedundancy+1

\* a dict with the key absent, or present with one of the values
Opt(key, vals) == {EmptyDict} \cup {key :> v : v \in vals}
\* a sub-dict is supplied only when it has a key
Sub(key, d) == IF DOMAIN d = {} THEN EmptyDict ELSE key :> d

Lengths == {FromInt(n) : n \in 1..MaxLen}
Tolerances == {FromInt(n) : n \in 0..MaxTol}
ClosureTolerances == [lat : Tolerances, dep : Tolerances, norm : Tolerances]
\* the labels a policy may configure for its two denial rules
DenyLabels == {"DENY", "DENY_REQUIRE_ANCHOR", "DENY_REQUIRE_RECOVERY"}

Seg(sid, L, theta) == [segment_id |-> sid, length |-> L, bearing_rad |-> theta]
Loop(lid, sids, tol) == [loop_id |-> lid, segments |-> sids, closure_tolerance |-> tol]

MkSpec(frog_rule, anchor_rule, recovery_rule, correction_safety) ==
    Sub("policy_semantics",
        Sub("frog_node_rule", frog_rule) @@ Sub("anchor_rule", anchor_rule)
        @@ Sub("recovery_rule", recovery_rule)
        @@ Sub("correction_safety", correction_safety))

MkGiven(segments_list, loops, anchors, redundancy) ==
    [segments |-> segments_list] @@ loops @@ Sub("anchors", anchors) @@ redundancy

AnchorInputs ==
    {EmptyDict,
     [observed_anchor_disagreement |-> FromInt(2)],
     [anchor_agreement_tolerance |-> FromInt(1)],
     [observed_anchor_disagreement |-> FromInt(2), anchor_agreement_tolerance |-> Zero],
     [observed_anchor_disagreement |-> FromInt(1), anchor_agreement_tolerance |-> One],
     [observed_anchor_disagreement |-> FromInt(2), anchor_agreement_tolerance |-> One]}

\* a second loop, never the selected one: a frog segment, gross misclosure
LaterLoops ==
    {Loop("L2", <<"s3">>, ZeroTolerance),
     Loop("L3", <<"s1", "s1", "s3">>, [lat |-> One, dep |-> One, norm |-> One])}

\* Guard inputs: anchors, the frog flag, redundancy, the anchor-rule label (one
\* of them a string outside the Decision values; the policy is not validated),
\* the safety fraction and the loops list vary over a north/south pair of
\* segments.
GuardInputs ==
    { <<MkSpec(tm @@ rr, al, EmptyDict, mf),
        MkGiven(<<Seg("s1", L1, "0") @@ f1,
                  Seg("s2", One, "pi") @@ [is_frog |-> FALSE],
                  Seg("s3", FromInt(MaxLen + 1), "pi/2") @@ [is_frog |-> TRUE]>>,
                lp, an, rd)>> :
        tm \in Opt("tighter_multiplier", {Rat(1, 2)}),
        rr \in Opt("required_redundancy", 1..(MaxRedundancy + 1)),
        al \in Opt("decision", {"DENY", "ESCALATE"}),
        L1 \in Lengths,
        f1 \in Opt("is_frog", {TRUE}),
        mf \in Opt("max_fraction_of_segment", {One}),
        an \in AnchorInputs,
        rd \in Opt("redundancy", 0..MaxRedundancy),
        lp \in Opt("loops",
                   {<<>>} \cup
                   {<<Loop("L1", <<"s1", "s2">>, [lat |-> t, dep |-> t, norm |-> t])>>
                      \o later :
                      t \in {Zero, One},
                      later \in {<<>>} \cup {<<l>> : l \in LaterLoops}}) }

\* Geometry inputs: the lengths and bearings of two segments, the three
\* closure tolerances, the frog tightening, the recovery multiplier and the
\* recovery-rule label vary; anchors and redundancy are not supplied.
GeometryInputs ==
    { <<MkSpec(tm, EmptyDict, rl, mm),
        MkGiven(<<Seg("s1", L1, b1) @@ f1, Seg("s2", L2, b2)>>,
                [loops |-> <<Loop("L1", <<"s1", "s2">>, tol)>>],
                EmptyDict, EmptyDict)>> :
        tm \in Opt("tighter_multiplier", {Rat(1, 2)}),
        rl \in Opt("decision", {"DENY"}),
        mm \in Opt("max_norm_multiplier_over_tolerance", {One, FromInt(3)}),
        L1 \in Lengths, L2 \in Lengths,
        b1 \in Bearings, b2 \in Bearings,
        f1 \in Opt("is_frog", {TRUE}),
        tol \in ClosureTolerances }

\* what a loop of the weight inputs lists: the pair, a repeated id, an id
\* that resolves to no segment, and all three segments
WeightLoopSegments ==
    {<<"s1", "s2">>, <<"s1", "s2", "s1">>, <<"s1", "zz", "s2">>, <<"s1", "s2", "s3">>}

\* Weight inputs: length, trust_weight and risk_weight of a north/south pair
\* (and an east segment), the ids the loop lists, the safety fraction and the
\* recovery-rule label vary.
WeightInputs ==
    { <<MkSpec(EmptyDict, EmptyDict, rl, mf),
        MkGiven(<<Seg("s1", L1, "0") @@ t1 @@ r1, Seg("s2", L2, "pi") @@ t2 @@ r2,
                  Seg("s3", One, "pi/2") @@ t2>>,
                [loops |-> <<Loop("L1", sids, [lat |-> tn, dep |-> tn, norm |-> tn])>>],
                EmptyDict, EmptyDict)>> :
        rl \in Opt("decision", {"DENY"}),
        mf \in Opt("max_fraction_of_segment", {Rat(1, 3), Rat(1, 2), FromInt(2)}),
        L1 \in Lengths, L2 \in Lengths,
        t1 \in Opt("trust_weight", {Zero, FromInt(2), FromInt(-1)}),
        t2 \in Opt("trust_weight", {Zero, FromInt(2), FromInt(-1)}),
        r1 \in Opt("risk_weight", {Zero, FromInt(2)}),
        r2 \in Opt("risk_weight", {FromInt(2)}),
        sids \in WeightLoopSegments,
        tn \in {Zero, One} }


NoResult == <<"NoResult">>

Init ==
    /\ \/ \E input \in GuardInputs : spec = input[1] /\ given = input[2]
       \/ \E input \in GeometryInputs : spec = input[1] /\ given = input[2]
       \/ \E input \in WeightInputs : spec = input[1] /\ given = input[2]
    /\ pc = "ready"
    /\ result = NoResult

\* one call out = evaluate_bowditch(spec, given)
Evaluate ==
    /\ pc = "ready"
    /\ result' = evaluate_bowditch(spec, given)
    /\ pc' = "done"
    /\ UNCHANGED <<spec, given>>

Next == Evaluate

Spec == Init /\ [][Next]_vars

\* the calls on the guard inputs alone, where the loops list varies
InitLoops ==
    /\ \E input \in GuardInputs : spec = input[1] /\ given = input[2]
    /\ pc = "ready"
    /\ result = NoResult

SpecLoops == InitLoops /\ [][Next]_vars

(***************************************************************************)
(* Properties.  Each is a predicate of the state after the call (pc =      *)
(* "done"): the inputs are read from spec and given, the outcome from      *)
(* result.  The conditions on the inputs are written out from the          *)
(* statement of the property, not taken from the evaluator's operators.    *)
(***************************************************************************)
Done == pc = "done"

\* the inputs, as supplied
GivenAnchors == _safe_get(given, "anchors", EmptyDict)
GivenLoops == _safe_get(given, "loops", <<>>)
GivenSegments == _safe_get(given, "segments", <<>>)
PolicyRule(name) ==
    _safe_get(_safe_get(spec, "policy_semantics", EmptyDict), name, EmptyDict)
ConfiguredAnchorLabel ==
    IF "decision" \in DOMAIN PolicyRule("anchor_rule")
    THEN PolicyRule("anchor_rule").decision ELSE "DENY_REQUIRE_ANCHOR"
ConfiguredRecoveryLabel ==
    IF "decision" \in DOMAIN PolicyRule("recovery_rule")
    THEN PolicyRule("recovery_rule").decision ELSE "DENY_REQUIRE_RECOVERY"
ConfiguredMultiplier ==
    IF "max_norm_multiplier_over_tolerance" \in DOMAIN PolicyRule("correction_safety")
    THEN PolicyRule("correction_safety").max_norm_multiplier_over_tolerance
    ELSE FromInt(2)
ConfiguredFraction ==
    IF "max_fraction_of_segment" \in DOMAIN PolicyRule("correction_safety")
    THEN PolicyRule("correction_safety").max_fraction_of_segment
    ELSE Rat(1, 50)

\* anchors carries a disagreement and a positive tolerance, disagreement > tolerance
AnchorsDisagree ==
    /\ {"observed_anchor_disagreement", "anchor_agreement_tolerance"}
          \subseteq DOMAIN GivenAnchors
    /\ GivenAnchors.anchor_agreement_tolerance[1] > 0
    /\ RLt(GivenAnchors.anchor_agreement_tolerance,
           GivenAnchors.observed_anchor_disagreement)

\* some segment of the first loop has is_frog = true
FirstLoopHasFrog ==
    /\ GivenLoops # <<>>
    /\ "segments" \in DOMAIN GivenLoops[1]
    /\ \E i \in DOMAIN GivenLoops[1].segments : \E j \in DOMAIN GivenSegments :
          /\ GivenSegments[j].segment_id = GivenLoops[1].segments[i]
          /\ "is_frog" \in DOMAIN GivenSegments[j]
          /\ GivenSegments[j].is_frog

\* the supplied redundancy is below frog_node_rule.required_redundancy
RedundancyBelowRequired ==
    /\ "redundancy" \in DOMAIN given
    /\ "required_redundancy" \in DOMAIN PolicyRule("frog_node_rule")
    /\ given.redundancy < PolicyRule("frog_node_rule").required_redundancy

FrogDenied == FirstLoopHasFrog /\ RedundancyBelowRequired

\* the call got as far as the tolerance evaluator
ReachesToleranceEvaluator == ~AnchorsDisagree /\ GivenLoops # <<>> /\ ~FrogDenied

\* the three bounds, on the misclosure and the tolerance the result reports
LatWithin(m, tol) == RLe(RAbs(m.f_N), tol.lat)
DepWithin(m, tol) == RLe(RAbs(m.f_E), tol.dep)
NormWithin(m, tol) == tol.norm[1] >= 0 /\ RLe(m.norm.sq, RMul(tol.norm, tol.norm))
AllWithin(m, tol) == LatWithin(m, tol) /\ DepWithin(m, tol) /\ NormWithin(m, tol)

NoCorrectionReported ==
    /\ result.corrections_applied = FALSE
    /\ result.corrected_segments = None
    /\ "corrections" \notin DOMAIN result.audit_report

\* given with the anchors entry removed
WithoutAnchors(g) == [k \in DOMAIN g \ {"anchors"} |-> g[k]]

\* C1 Anchor precedence: whenever anchors carries a disagreement beyond a
\* positive tolerance, the decision is the anchor-rule label of the policy
\* (default DENY_REQUIRE_ANCHOR), no correction is applied or listed, and the
\* misclosure and the tolerance are zero-filled, whatever else is supplied.
C1_AnchorPrecedence ==
    (Done /\ AnchorsDisagree) =>
        /\ result.decision = ConfiguredAnchorLabel
        /\ result.corrections_applied = FALSE
        /\ result.corrected_segments = None
        /\ result.misclosure = ZeroMisclosure
        /\ result.tolerance_used = ZeroTolerance

\* an anchor conflict denied under a configured label although the same
\* input without its anchors is allowed
C1_Witness ==
    /\ Done /\ AnchorsDisagree
    /\ GivenLoops # <<>>
    /\ "decision" \in DOMAIN PolicyRule("anchor_rule")
    /\ result.decision = "DENY"
    /\ evaluate_bowditch(spec, WithoutAnchors(given)).decision = "ALLOW"

\* C2 Frog with insufficient redundancy: with no anchor conflict and a first
\* loop holding a frog segment, a redundancy below the required one gives the
\* anchor-rule label of the policy and no correction.
C2_FrogDeniedWithAnchorLabel ==
    (Done /\ ~AnchorsDisagree /\ FrogDenied) =>
        /\ result.decision = ConfiguredAnchorLabel
        /\ NoCorrectionReported

\* C3 Tolerance evaluator: past the anchor guard, the loop selection and the
\* frog rule, the decision is ALLOW without corrections exactly when all
\* three bounds hold for the tolerance used; a loop without a frog segment
\* whose misclosure is within its own closure_tolerance is allowed.
C3_ToleranceEvaluator ==
    (Done /\ ReachesToleranceEvaluator) =>
        /\ (result.decision = "ALLOW" /\ result.corrections_applied = FALSE)
              <=> AllWithin(result.misclosure, result.tolerance_used)
        /\ (~FirstLoopHasFrog /\ "closure_tolerance" \in DOMAIN GivenLoops[1]
            /\ AllWithin(result.misclosure, GivenLoops[1].closure_tolerance))
              => (result.decision = "ALLOW" /\ result.corrections_applied = FALSE)

\* the norm bound alone is violated and the loop is not allowed
C3_Witness ==
    /\ Done /\ ReachesToleranceEvaluator
    /\ LatWithin(result.misclosure, result.tolerance_used)
    /\ DepWithin(result.misclosure, result.tolerance_used)
    /\ ~NormWithin(result.misclosure, result.tolerance_used)
    /\ result.decision # "ALLOW"

\* the corrections the audit lists
AuditCorrections == result.audit_report.corrections
CorrectorRan == "corrections" \in DOMAIN result.audit_report

RECURSIVE SumField(_, _)
SumField(seq, field) ==
    IF seq = <<>> THEN Zero
    ELSE RAdd(seq[1][field], SumField(Tail(seq), field))

\* C4 Correction closure: whenever corrections are applied, the listed
\* corrections sum to -(fN, fE) and the recomputed norm does not exceed the
\* original norm.
C4_CorrectionClosure ==
    (Done /\ result.decision = "ALLOW_WITH_CORRECTIONS") =>
        /\ SumField(AuditCorrections, "cN") = RNeg(result.misclosure.f_N)
        /\ SumField(AuditCorrections, "cE") = RNeg(result.misclosure.f_E)
        /\ RLe(result.audit_report.post_misclosure.norm.sq, result.misclosure.norm.sq)

\* the length of the segment a listed correction belongs to
LengthOf(sid) ==
    LET j == CHOOSE k \in DOMAIN GivenSegments : GivenSegments[k].segment_id = sid
    IN  GivenSegments[j].length

MaxAbs(a, b) == IF RLe(RAbs(a), RAbs(b)) THEN RAbs(b) ELSE RAbs(a)

\* max(|cN_i|, |cE_i|) > max_fraction_of_segment * length_i
Offends(c) ==
    RLt(RMul(ConfiguredFraction, LengthOf(c.segment_id)), MaxAbs(c.cN, c.cE))
\* max(|cN_i|, |cE_i|) = max_fraction_of_segment * length_i
AtBoundary(c) ==
    MaxAbs(c.cN, c.cE) = RMul(ConfiguredFraction, LengthOf(c.segment_id))

SomeSegmentOffends == \E i \in DOMAIN AuditCorrections : Offends(AuditCorrections[i])

\* C5 Safety guard boundary: once the corrector has run, the attempt is
\* rejected (recovery-rule label, nothing applied) exactly when the larger
\* correction component of some segment exceeds max_fraction_of_segment
\* times its length; otherwise, equality included, the decision is
\* ALLOW_WITH_CORRECTIONS.
C5_SafetyGuardBoundary ==
    (Done /\ CorrectorRan) =>
        /\ SomeSegmentOffends =>
              /\ result.decision = ConfiguredRecoveryLabel
              /\ result.corrections_applied = FALSE
              /\ result.corrected_segments = None
        /\ ~SomeSegmentOffends =>
              /\ result.decision = "ALLOW_WITH_CORRECTIONS"
              /\ result.corrections_applied = TRUE

\* a correction exactly at the bound, none beyond it, and the loop accepted
C5_Witness ==
    /\ Done /\ CorrectorRan
    /\ \E i \in DOMAIN AuditCorrections :
          AtBoundary(AuditCorrections[i]) /\ AuditCorrections[i].cN # Zero
    /\ ~SomeSegmentOffends
    /\ result.decision = "ALLOW_WITH_CORRECTIONS"

\* norm > max_norm_multiplier_over_tolerance * tol.norm, on the reported values
NormBeyondMultiple(m, tol) ==
    LET bound == RMul(ConfiguredMultiplier, tol.norm)
    IN  bound[1] < 0 \/ RLt(RMul(bound, bound), m.norm.sq)

\* C6 Recovery guard: when the misclosure is not within tolerance, tol.norm > 0
\* and norm > multiplier * tol.norm give the recovery-rule label with no
\* correction computed or reported; otherwise (tol.norm = 0, or norm up to and
\* including multiplier * tol.norm) the corrector runs.
C6_RecoveryGuard ==
    (Done /\ ReachesToleranceEvaluator
          /\ ~AllWithin(result.misclosure, result.tolerance_used)) =>
        IF result.tolerance_used.norm[1] > 0
           /\ NormBeyondMultiple(result.misclosure, result.tolerance_used)
        THEN result.decision = ConfiguredRecoveryLabel /\ NoCorrectionReported
        ELSE CorrectorRan

\* norm exactly multiplier * tol.norm with tol.norm > 0: the corrector runs
C6_Witness ==
    /\ Done /\ ReachesToleranceEvaluator
    /\ ~AllWithin(result.misclosure, result.tolerance_used)
    /\ result.tolerance_used.norm[1] > 0
    /\ result.misclosure.norm.sq =
          RMul(RMul(ConfiguredMultiplier, result.tolerance_used.norm),
               RMul(ConfiguredMultiplier, result.tolerance_used.norm))
    /\ CorrectorRan

\* the policy with max_norm_multiplier_over_tolerance set to m, all else kept
WithMultiplier(s, m) ==
    LET pol == _safe_get(s, "policy_semantics", EmptyDict)
        cs == _safe_get(pol, "correction_safety", EmptyDict)
    IN  Merge(s, [policy_semantics |->
            Merge(pol, [correction_safety |->
                Merge(cs, [max_norm_multiplier_over_tolerance |-> m])])])

\* the multipliers a second policy is given
OtherMultipliers == {One, Rat(3, 2), FromInt(2), FromInt(3)}

\* the result is the recovery guard's denial
StoppedByRecoveryGuard(r) ==
    /\ "reason" \in DOMAIN r.audit_report
    /\ r.audit_report.reason = "misclosure norm too large relative to tolerance"

\* C7 Monotonicity in max_norm_multiplier_over_tolerance: for the same given
\* and a policy that differs only in a multiplier m2 >= m1, a call the
\* recovery guard does not stop under m1 is not stopped by it under m2.
C7_MultiplierMonotone ==
    Done =>
        \A m2 \in OtherMultipliers :
            (RLe(ConfiguredMultiplier, m2) /\ ~StoppedByRecoveryGuard(result))
                => ~StoppedByRecoveryGuard(
                       evaluate_bowditch(WithMultiplier(spec, m2), given))

\* a recovery-guard denial that a larger multiplier turns into a correction
\* attempt, and a correction attempt under the smaller one stays one
C7_Witness ==
    /\ Done /\ StoppedByRecoveryGuard(result)
    /\ \E m2 \in OtherMultipliers :
          /\ RLt(ConfiguredMultiplier, m2)
          /\ "corrections" \in DOMAIN
                evaluate_bowditch(WithMultiplier(spec, m2), given).audit_report

\* the phrases of an audit note
Contains(note, phrase) == \E i \in DOMAIN note : note[i] = phrase

\* a frog segment is supplied in the segment list
SomeSegmentIsFrog ==
    \E j \in DOMAIN GivenSegments :
        "is_frog" \in DOMAIN GivenSegments[j] /\ GivenSegments[j].is_frog

\* C8 Empty loops: with no anchor conflict and an empty or absent loops list
\* the decision is ALLOW with no correction, a zero-filled misclosure and a
\* note saying the closure check was skipped, whatever else is supplied.
C8_EmptyLoopsAllow ==
    (Done /\ ~AnchorsDisagree /\ GivenLoops = <<>>) =>
        /\ result.decision = "ALLOW"
        /\ result.corrections_applied = FALSE
        /\ result.misclosure = ZeroMisclosure
        /\ "note" \in DOMAIN result.audit_report
        /\ Contains(result.audit_report.note, "closure check skipped")

\* no loops, yet frog segments in the list and too little redundancy: allowed
C8_Witness ==
    /\ Done /\ ~AnchorsDisagree /\ GivenLoops = <<>>
    /\ SomeSegmentIsFrog /\ RedundancyBelowRequired
    /\ result.decision = "ALLOW"

\* given with its loops list replaced
WithLoops(g, loops) == Merge(g, [loops |-> loops])

\* what may follow the first loop in the list
LoopTails ==
    {<<>>} \cup {<<l>> : l \in LaterLoops}
    \cup {t \in LaterLoops \X LaterLoops : t[1] # t[2]}

\* C9 First loop only: replacing, adding or removing the loops after the
\* first one leaves the whole result unchanged.
C9_FirstLoopOnly ==
    (Done /\ GivenLoops # <<>>) =>
        \A tail \in LoopTails :
            evaluate_bowditch(spec, WithLoops(given, <<GivenLoops[1]>> \o tail)) = result

\* corrections are applied to the first loop although the loop listed after
\* it, evaluated in its place, is denied
C9_Witness ==
    /\ Done /\ Len(GivenLoops) > 1
    /\ result.decision = "ALLOW_WITH_CORRECTIONS"
    /\ evaluate_bowditch(spec, WithLoops(given, Tail(GivenLoops))).decision
          \in DenyLabels

\* C10 Audit completeness: on every exit with a loop supplied or an anchor
\* conflict, the audit report holds the loop id, the frog-presence flag, the
\* tolerance used and the misclosure.
C10_AuditComplete ==
    (Done /\ (AnchorsDisagree \/ GivenLoops # <<>>)) =>
        {"loop_id", "has_frog", "tolerance_used", "misclosure"}
            \subseteq DOMAIN result.audit_report

IsAcceptance(r) == r.decision \in {"ALLOW", "ALLOW_WITH_CORRECTIONS"}
IsDenial(r) == ~IsAcceptance(r)

\* the texts the denial exits put in the audit
ReasonTexts ==
    {"anchor conflict beyond tolerance",
     "misclosure norm too large relative to tolerance",
     "corrections exceed max_fraction_of_segment"}

Decisions ==
    {"ALLOW", "ALLOW_WITH_CORRECTIONS", "DENY", "DENY_REQUIRE_ANCHOR",
     "DENY_REQUIRE_RECOVERY"}

\* C12 Closed decision set: for every policy and every given the decision is
\* one of the five Decision values and equals the decision entry of the audit
\* report.
C12_ClosedDecisionSet ==
    Done =>
        /\ result.decision \in Decisions
        /\ "decision" \in DOMAIN result.audit_report
        /\ result.audit_report.decision = result.decision

\* the segment of the supplied list with the given id
SegmentOf(sid) ==
    GivenSegments[CHOOSE k \in DOMAIN GivenSegments : GivenSegments[k].segment_id = sid]

\* w_i = length_i * trust_weight_i / risk_weight_i, risk_weight 1 when <= 0,
\* both weights 1 when not supplied
StatedWeight(seg) ==
    LET trust == IF "trust_weight" \in DOMAIN seg THEN seg.trust_weight ELSE One
        risk == IF "risk_weight" \in DOMAIN seg /\ seg.risk_weight[1] > 0
                THEN seg.risk_weight ELSE One
    IN  RDiv(RMul(seg.length, trust), risk)

\* W: the sum of the w_i over the loop's segments, or their number (1 if
\* there are none) when that sum is <= 0
StatedTotalWeight(corrections) ==
    LET total == SumField(corrections, "w")
    IN  IF total[1] > 0 THEN total
        ELSE IF corrections = <<>> THEN One ELSE FromInt(Len(corrections))

\* C13 Bowditch weights and distribution: whenever the corrector runs, each
\* listed weight is length * trust / risk (risk 1 when <= 0), W is the sum of
\* the weights of the loop's segments or their count when the sum is <= 0, W
\* is not zero, each correction is -f * (w_i / W), and an adjusted increment
\* is the original one plus its correction.
C13_WeightsAndDistribution ==
    (Done /\ CorrectorRan) =>
        LET W == StatedTotalWeight(AuditCorrections)
        IN  /\ W # Zero
            /\ \A i \in DOMAIN AuditCorrections :
                  LET c == AuditCorrections[i]
                  IN  /\ c.w = StatedWeight(SegmentOf(c.segment_id))
                      /\ c.cN = RMul(RNeg(result.misclosure.f_N), RDiv(c.w, W))
                      /\ c.cE = RMul(RNeg(result.misclosure.f_E), RDiv(c.w, W))
            /\ result.corrections_applied =>
                  \A i \in DOMAIN result.corrected_segments :
                      LET seg == result.corrected_segments[i]
                      IN  /\ seg._correction.cN = AuditCorrections[i].cN
                          /\ seg._correction.cE = AuditCorrections[i].cE
                          /\ seg._adjusted.dN =
                                RAdd(seg._unadjusted.dN, seg._correction.cN)
                          /\ seg._adjusted.dE =
                                RAdd(seg._unadjusted.dE, seg._correction.cE)

ConfiguredTighterMultiplier ==
    IF "tighter_multiplier" \in DOMAIN PolicyRule("frog_node_rule")
    THEN PolicyRule("frog_node_rule").tighter_multiplier ELSE One

\* the first loop's closure_tolerance, each component multiplied by
\* frog_tighter_multiplier when the loop holds a frog segment
StatedTolerance ==
    LET lt == IF "closure_tolerance" \in DOMAIN GivenLoops[1]
              THEN GivenLoops[1].closure_tolerance ELSE ZeroTolerance
        k == IF FirstLoopHasFrog THEN ConfiguredTighterMultiplier ELSE One
    IN  [lat |-> RMul(lt.lat, k), dep |-> RMul(lt.dep, k), norm |-> RMul(lt.norm, k)]

\* C14 Frog tolerance tightening: whenever a loop is selected, tolerance_used
\* is the loop's closure_tolerance, multiplied component by component by
\* frog_tighter_multiplier exactly when the loop holds a frog segment; that
\* tolerance decides the tolerance evaluator and the recovery guard; and with
\* no redundancy supplied a frog segment never causes the frog denial.
C14_FrogTightening ==
    (Done /\ ~AnchorsDisagree /\ GivenLoops # <<>>) =>
        /\ result.tolerance_used = StatedTolerance
        /\ ReachesToleranceEvaluator =>
              /\ result.decision = "ALLOW"
                    <=> AllWithin(result.misclosure, StatedTolerance)
              /\ StoppedByRecoveryGuard(result)
                    <=> /\ ~AllWithin(result.misclosure, StatedTolerance)
                        /\ StatedTolerance.norm[1] > 0
                        /\ NormBeyondMultiple(result.misclosure, StatedTolerance)
        /\ "redundancy" \notin DOMAIN given =>
              /\ "frog_rule" \notin DOMAIN result.audit_report
              /\ "misclosure" \in DOMAIN result.audit_report

\* a frog segment, a halved tolerance, a required redundancy, none supplied:
\* the loop goes on to the tolerance evaluator
C14_Witness ==
    /\ Done /\ ~AnchorsDisagree /\ FirstLoopHasFrog
    /\ "redundancy" \notin DOMAIN given
    /\ "required_redundancy" \in DOMAIN PolicyRule("frog_node_rule")
    /\ ConfiguredTighterMultiplier = Rat(1, 2)
    /\ GivenLoops[1].closure_tolerance.norm = One
    /\ result.tolerance_used = [lat |-> Rat(1, 2), dep |-> Rat(1, 2), norm |-> Rat(1, 2)]
    /\ "frog_rule" \notin DOMAIN result.audit_report

KnownIds == {GivenSegments[i].segment_id : i \in DOMAIN GivenSegments}

FirstLoopIds ==
    IF GivenLoops # <<>> /\ "segments" \in DOMAIN GivenLoops[1]
    THEN GivenLoops[1].segments ELSE <<>>

UnresolvedIds == {FirstLoopIds[i] : i \in DOMAIN FirstLoopIds} \ KnownIds

\* the input with the unresolved ids taken out of the first loop
WithoutUnresolvedIds ==
    LET known(sid) == sid \in KnownIds
        cleaned == Merge(GivenLoops[1], [segments |-> SelectSeq(FirstLoopIds, known)])
    IN  WithLoops(given, <<cleaned>> \o Tail(GivenLoops))

\* C15 Missing segment ids are skipped consistently: when the first loop lists
\* ids that are not in the segment set, the result equals the result for the
\* same input with those ids removed from the loop, and no correction is
\* reported for an unresolved id.
C15_MissingIdsSkipped ==
    (Done /\ GivenLoops # <<>> /\ UnresolvedIds # {}) =>
        /\ evaluate_bowditch(spec, WithoutUnresolvedIds) = result
        /\ "corrections" \in DOMAIN result.audit_report =>
              \A i \in DOMAIN AuditCorrections :
                  AuditCorrections[i].segment_id \in KnownIds

\* a loop listing an unknown id between two known ones is corrected
C15_Witness ==
    /\ Done /\ UnresolvedIds # {}
    /\ result.decision = "ALLOW_WITH_CORRECTIONS"
    /\ Len(AuditCorrections) = Len(FirstLoopIds) - 1

\* C16 Accepted corrections close the loop: whenever the decision is
\* ALLOW_WITH_CORRECTIONS, the post_misclosure of the audit is within the
\* three bounds of tolerance_used.
C16_AcceptedCorrectionsClose ==
    (Done /\ result.decision = "ALLOW_WITH_CORRECTIONS") =>
        AllWithin(result.audit_report.post_misclosure, result.tolerance_used)

====
